---- MODULE Spec2Model ----
(***************************************************************************)
(* libcdc: a model of the descriptor walker, the open/claim/configure/     *)
(* close state machine of a cdc_ctx, and bulk read/write, over a model of  *)
(* the libusb calls the library issues.                                    *)
(***************************************************************************)
EXTENDS Integers, Sequences, FiniteSets, TLC

VARIABLES
    bus,                 \* the devices libusb enumerates, in order
    usb_ctx,             \* cdc->usb_ctx   (TRUE: a libusb context is held)
    usb_dev,             \* cdc->usb_dev   (0: NULL, else a handle id)
    usb_read_timeout,    \* cdc->usb_read_timeout
    usb_write_timeout,   \* cdc->usb_write_timeout
    out_ep,              \* cdc->out_ep
    in_ep,               \* cdc->in_ep
    error_str,           \* cdc->error_str
    error_code,          \* cdc->error_code
    module_detach_mode,  \* cdc->module_detach_mode
    handles,             \* libusb: handle id -> state of that device handle
    errno,               \* the C library's errno
    crashed,             \* the process died in a call on a NULL handle
    op,                  \* the public operation that returned last
    ret,                 \* its return value
    calls,               \* the libusb calls it issued, in order
    walk,                \* the locals the walker filled in during it
    devlist,             \* the caller's cdc_device_list: the devices it holds
    refs                 \* libusb: device -> references taken on it

vars == <<bus, usb_ctx, usb_dev, usb_read_timeout, usb_write_timeout, out_ep,
          in_ep, error_str, error_code, module_detach_mode, handles, errno,
          crashed, op, ret, calls, walk, devlist, refs>>

----------------------------------------------------------------------------
(* enum cdc_error *)
CDC_SUCCESS == 0
CDC_ERROR_IO == -1
CDC_ERROR_INVALID_PARAM == -2
CDC_ERROR_ACCESS == -3
CDC_ERROR_NO_DEVICE == -4
CDC_ERROR_NOT_FOUND == -5
CDC_ERROR_BUSY == -6
CDC_ERROR_TIMEOUT == -7
CDC_ERROR_NO_MEM == -11
CDC_ERROR_OTHER == -99

(* enum cdc_module_detach_mode *)
AUTO_DETACH_CDC_MODULE == 0
DONT_DETACH_CDC_MODULE == 1
AUTO_DETACH_REATTACH_CDC_MODULE == 2

(* enum cdc_bits_type, cdc_stopbits_type, cdc_parity_type: the values open uses *)
BITS_8 == 8
STOP_BIT_1 == 0
NONE == 0

(* cdc_init's defaults, the class code and the direction bit the walker tests *)
DefaultTimeout == 5000
CdcDataClass == 10
DirIn == 128

(* errno values, by name; NoErrno is 0 *)
NoErrno == "0"
EPERM == "EPERM"
ENODATA == "ENODATA"

NULL == 0
NoStr == "NULL"

----------------------------------------------------------------------------
(* Bounds of the model. *)
MaxSettings == 2     \* alternate settings in a generated descriptor tree
MaxHandles == 2      \* device handles libusb can have open at once
MaxXfer == 2         \* bytes asked of one bulk transfer
MaxBus == 3          \* devices on a generated bus
MaxLeaks == 1        \* raw device lists a run may leave unreleased

----------------------------------------------------------------------------
(* Descriptors, as libusb hands them out. *)
Endpoint(addr) == [bEndpointAddress |-> addr]

Setting(class, eps) ==
    [bInterfaceClass |-> class, bNumEndpoints |-> Len(eps), endpoint |-> eps]

Interface(alts) == [num_altsetting |-> Len(alts), altsetting |-> alts]

Config(ifs) == [bNumInterfaces |-> Len(ifs), interface |-> ifs]

Device(cfgs) == [bNumConfigurations |-> Len(cfgs), config |-> cfgs]

(* One libusb call, as logged: function, handle, two arguments, the bytes   *)
(* it carried or moved, and its result.                                    *)
Call(fn, h, a, b, n, rc) ==
    [fn |-> fn, h |-> h, a |-> a, b |-> b, n |-> n, rc |-> rc]

----------------------------------------------------------------------------
(* static cdc_usb_endpoints_internal                                       *)

(* i ^ 1 *)
Xor1(i) == IF i % 2 = 0 THEN i + 1 ELSE i - 1

(* x & 0x80 *)
And80(x) == ((x \div DirIn) % 2) * DirIn

(* setting->bInterfaceClass == 10 && setting->bNumEndpoints *)
IsDataSetting(setting) ==
    setting.bInterfaceClass = CdcDataClass /\ setting.bNumEndpoints # 0

EndpointsOfSwapped(setting) ==
    LET first == setting.endpoint[1].bEndpointAddress
    IN  IF setting.bNumEndpoints > 1
        THEN LET second == setting.endpoint[2].bEndpointAddress
             IN  IF And80(second) # 0
                 THEN [in_ep |-> second, out_ep |-> first]
                 ELSE [in_ep |-> first, out_ep |-> second]
        ELSE [in_ep |-> first, out_ep |-> first]

(* *in_ep and *out_ep as lines 89-105 leave them *)
EndpointsOf(setting) ==
    LET first == setting.endpoint[1].bEndpointAddress
    IN  IF setting.bNumEndpoints > 1
        THEN LET second == setting.endpoint[2].bEndpointAddress
             IN  IF And80(second) # 0
                 THEN [in_ep |-> first, out_ep |-> second]
                 ELSE [in_ep |-> second, out_ep |-> first]
        ELSE [in_ep |-> first, out_ep |-> first]

NoMatch == [found |-> FALSE]

Match(c, i, setting) ==
    [found |-> TRUE, data_iface |-> i, ctrl_iface |-> Xor1(i), cfg_idx |-> c,
     in_ep |-> EndpointsOf(setting).in_ep,
     out_ep |-> EndpointsOf(setting).out_ep]

(* for (a = 0; a < interface->num_altsetting; a++) *)
RECURSIVE WalkAlt(_, _, _, _)
WalkAlt(interface, c, i, a) ==
    IF a >= interface.num_altsetting
    THEN NoMatch
    ELSE LET setting == interface.altsetting[a + 1]
         IN  IF IsDataSetting(setting)
             THEN Match(c, i, setting)
             ELSE WalkAlt(interface, c, i, a + 1)

RECURSIVE WalkIfaceLast(_, _, _)
WalkIfaceLast(config, c, i) ==
    IF i >= config.bNumInterfaces
    THEN NoMatch
    ELSE LET rest == WalkIfaceLast(config, c, i + 1)
         IN  IF rest.found THEN rest
             ELSE WalkAlt(config.interface[i + 1], c, i, 0)

(* for (i = 0; i < config->bNumInterfaces; i++) *)
RECURSIVE WalkIface(_, _, _)
WalkIface(config, c, i) ==
    IF i >= config.bNumInterfaces
    THEN NoMatch
    ELSE LET m == WalkAlt(config.interface[i + 1], c, i, 0)
         IN  IF m.found THEN m ELSE WalkIface(config, c, i + 1)

(* for (c = 0; c < desc.bNumConfigurations; c++); f names the descriptor   *)
(* fetch that fails in this call, if any.                                  *)
RECURSIVE WalkCfg(_, _, _, _)
WalkCfg(dev, c, f, log) ==
    IF c >= dev.bNumConfigurations
    THEN [rc |-> CDC_ERROR_NOT_FOUND, str |-> "cdc endpoints", m |-> NoMatch,
          calls |-> log]
    ELSE IF f.at = "cfgdesc" /\ f.c = c
    THEN [rc |-> f.err, str |-> "libusb_get_config_descriptor", m |-> NoMatch,
          calls |-> Append(log, Call("get_config_descriptor", NULL, c, 0, 0, f.err))]
    ELSE LET m == WalkIface(dev.config[c + 1], c, 0)
             log2 == log \o <<Call("get_config_descriptor", NULL, c, 0, 0, 0),
                              Call("free_config_descriptor", NULL, c, 0, 0, 0)>>
         IN  IF m.found
             THEN [rc |-> CDC_SUCCESS, str |-> NoStr, m |-> m, calls |-> log2]
             ELSE WalkCfg(dev, c + 1, f, log2)

(* d: index of the device on the bus, 0 for a NULL libusb_device pointer *)
cdc_usb_endpoints_internal(d, f) ==
    IF d = NULL
    THEN [rc |-> CDC_ERROR_INVALID_PARAM, str |-> "libusb_device *dev",
          m |-> NoMatch, calls |-> <<>>]
    ELSE IF f.at = "devdesc"
    THEN [rc |-> f.err, str |-> "libusb_get_device_descriptor", m |-> NoMatch,
          calls |-> <<Call("get_device_descriptor", NULL, d, 0, 0, f.err)>>]
    ELSE WalkCfg(bus[d], 0, f,
                 <<Call("get_device_descriptor", NULL, d, 0, 0, 0)>>)

----------------------------------------------------------------------------
(* The libusb side of a device handle. *)
ClosedHandle ==
    [open |-> FALSE, dev |-> NULL, claimed |-> {}, configured |-> FALSE]

Handles == 1..MaxHandles

HasFreeHandle(hs) == \E h \in Handles : ~hs[h].open

FreeHandle(hs) ==
    CHOOSE h \in Handles : ~hs[h].open /\ \A g \in Handles : g < h => hs[g].open

(* The cdc_ctx fields and the libusb state an operation works on, with the *)
(* calls it has issued and the value it returns.                           *)
Machine ==
    [usb_dev |-> usb_dev, in_ep |-> in_ep, out_ep |-> out_ep,
     error_str |-> error_str, error_code |-> error_code,
     handles |-> handles, errno |-> errno, crashed |-> FALSE,
     calls |-> <<>>, ret |-> 0, walk |-> NoMatch,
     devlist |-> devlist, refs |-> refs, usb_ctx |-> usb_ctx]

Log(s, c) == [s EXCEPT !.calls = Append(@, c)]

cdc_return_keep_str(s, code, str) ==
    [s EXCEPT !.error_code = code, !.ret = code]

(* #define cdc_return(code, str, ...) with cdc non-NULL, before __VA_ARGS__ *)
cdc_return(s, code, str) ==
    [s EXCEPT !.error_str = IF str # NoStr THEN str ELSE @,
              !.error_code = code,
              !.ret = code]

(* static cdc_usb_close_internal; a handle libusb_close has closed holds no *)
(* claim any more.                                                         *)
cdc_usb_close_internal(s) ==
    IF s.usb_dev # NULL
    THEN [Log(s, Call("close", s.usb_dev, 0, 0, 0, 0))
             EXCEPT !.handles[s.usb_dev] = ClosedHandle, !.usb_dev = NULL]
    ELSE s

----------------------------------------------------------------------------
(* cdc_set_line_coding *)

CodingBigEndian(baudrate, bits, sbit, parity) ==
    <<(baudrate \div 16777216) % 256, (baudrate \div 65536) % 256,
      (baudrate \div 256) % 256, baudrate % 256, sbit, parity, bits>>

(* uint8_t coding[7] *)
Coding(baudrate, bits, sbit, parity) ==
    <<baudrate % 256, (baudrate \div 256) % 256, (baudrate \div 65536) % 256,
      (baudrate \div 16777216) % 256, sbit, parity, bits>>

(* f.at = "ctrl": the control transfer fails with f.err *)
cdc_set_line_coding(s, baudrate, bits, sbit, parity, f) ==
    IF s.usb_dev = NULL
    THEN cdc_return(s, CDC_ERROR_NO_DEVICE, "not opened")
    ELSE LET coding == Coding(baudrate, bits, sbit, parity)
             rc == IF f.at = "ctrl" THEN f.err ELSE Len(coding)
             s1 == Log(s, Call("control_transfer", s.usb_dev, <<33, 32, 0, 0>>,
                               0, coding, rc))
         IN  IF rc < 0
             THEN cdc_return(s1, rc, "libusb_control_transfer")
             ELSE [s1 EXCEPT !.ret = CDC_SUCCESS]

(* The int a caller's 32-bit baud rate arrives as; the rate is given as its *)
(* high and low 16 bits.                                                   *)
IntOf(baud) ==
    IF baud[1] >= 32768
    THEN (baud[1] - 65536) * 65536 + baud[2]
    ELSE baud[1] * 65536 + baud[2]

(* cdc_setdtr_rts *)
setdtr_rts_unchecked(s, dtr, rts, f) ==
    LET usb_val == (IF dtr # 0 THEN 1 ELSE 0) + (IF rts # 0 THEN 2 ELSE 0)
        rc == IF f.at = "ctrl" THEN f.err ELSE 0
        s1 == Log(s, Call("control_transfer", s.usb_dev, <<33, 34, usb_val, 0>>,
                          0, <<>>, rc))
    IN  IF rc < 0
        THEN cdc_return(s1, rc, "libusb_control_transfer")
        ELSE [s1 EXCEPT !.ret = CDC_SUCCESS]

setdtr_rts(s, dtr, rts, f) ==
    IF s.usb_dev = NULL
    THEN cdc_return(s, CDC_ERROR_NO_DEVICE, "not opened")
    ELSE LET usb_val == (IF dtr # 0 THEN 1 ELSE 0) + (IF rts # 0 THEN 2 ELSE 0)
             rc == IF f.at = "ctrl" THEN f.err ELSE 0
             s1 == Log(s, Call("control_transfer", s.usb_dev,
                               <<33, 34, usb_val, 0>>, 0, <<>>, rc))
         IN  IF rc < 0
             THEN cdc_return(s1, rc, "libusb_control_transfer")
             ELSE [s1 EXCEPT !.ret = CDC_SUCCESS]

----------------------------------------------------------------------------
(* cdc_usb_open_dev                                                        *)

(* libusb_detach_kernel_driver: how one call ends, and what it leaves in   *)
(* errno (a call that succeeds leaves errno as it was).                    *)
DetachRc(o) ==
    IF o = "ok" THEN 0
    ELSE IF o = "nodata" THEN CDC_ERROR_NOT_FOUND
    ELSE CDC_ERROR_OTHER

DetachErrno(o, e) ==
    IF o = "ok" THEN e ELSE IF o = "nodata" THEN ENODATA ELSE EPERM

DetachDataOnly(s, mode, m, f) ==
    IF mode = DONT_DETACH_CDC_MODULE
    THEN [s |-> s, detach_errno |-> NoErrno]
    ELSE LET e2 == DetachErrno(f.det2, s.errno)
         IN  [s |-> [Log(s, Call("detach_kernel_driver", s.usb_dev,
                                 m.data_iface, 0, 0, DetachRc(f.det2)))
                        EXCEPT !.errno = e2],
              detach_errno |-> e2]

(* lines 416-424; returns the machine and detach_errno *)
Detach(s, mode, m, f) ==
    IF mode = AUTO_DETACH_CDC_MODULE
    THEN LET e1 == DetachErrno(f.det1, s.errno)
             e2 == DetachErrno(f.det2, e1)
             s1 == Log(Log(s, Call("detach_kernel_driver", s.usb_dev,
                                   m.ctrl_iface, 0, 0, DetachRc(f.det1))),
                       Call("detach_kernel_driver", s.usb_dev,
                            m.data_iface, 0, 0, DetachRc(f.det2)))
         IN  [s |-> [s1 EXCEPT !.errno = e2], detach_errno |-> e2]
    ELSE IF mode = AUTO_DETACH_REATTACH_CDC_MODULE
    THEN LET s1 == Log(Log(s, Call("set_auto_detach_kernel_driver", s.usb_dev,
                                   m.ctrl_iface, 0, 0, 0)),
                       Call("set_auto_detach_kernel_driver", s.usb_dev,
                            m.data_iface, 0, 0, 0))
         IN  [s |-> s1, detach_errno |-> s.errno]
    ELSE [s |-> s, detach_errno |-> NoErrno]

OpenDevConfigureClaimFirst(s, mode, m, f) ==
    LET dt == Detach(s, mode, m, f)
        h  == dt.s.usb_dev
        rc2 == IF f.at = "claim" THEN f.err ELSE 0
        s4 == Log(dt.s, Call("claim_interface", h, m.data_iface, 0, 0, rc2))
    IN  IF rc2 < 0
        THEN cdc_usb_close_internal(cdc_return(s4, rc2, "libusb_claim_interface"))
        ELSE LET rc == IF f.at = "setcfg" THEN f.err ELSE 0
                 s5 == Log([s4 EXCEPT !.handles[h].claimed = {m.data_iface}],
                           Call("set_configuration", h, m.cfg_idx, 0, 0, rc))
             IN  IF rc < 0
                 THEN cdc_return(s5, rc, "libusb_set_configuration")
                 ELSE LET s8 == cdc_set_line_coding(
                                    [s5 EXCEPT !.handles[h].configured = TRUE],
                                    9600, BITS_8, STOP_BIT_1, NONE, f)
                      IN  IF s8.ret < 0
                          THEN cdc_usb_close_internal(
                                   cdc_return(s8, s8.ret, NoStr))
                          ELSE [s8 EXCEPT !.ret = CDC_SUCCESS]

(* lines 426-449, on the handle libusb_open returned *)
OpenDevConfigure(s, mode, m, f) ==
    LET dt == Detach(s, mode, m, f)
        s3 == dt.s
        h  == s3.usb_dev
        rc == IF f.at = "setcfg" THEN f.err ELSE 0
        s4 == Log(s3, Call("set_configuration", h, m.cfg_idx, 0, 0, rc))
    IN  IF rc < 0
        THEN IF dt.detach_errno = EPERM
             THEN cdc_return(s4, CDC_ERROR_ACCESS,
                             "missing permissions to detach kernel module")
             ELSE cdc_return(s4, rc, "libusb_set_configuration")
        ELSE LET s5 == [s4 EXCEPT !.handles[h].configured = TRUE]
                 rc2 == IF f.at = "claim" THEN f.err ELSE 0
                 s6 == Log(s5, Call("claim_interface", h, m.data_iface, 0, 0, rc2))
             IN  IF rc2 < 0
                 THEN cdc_usb_close_internal(
                          cdc_return(s6, rc2, "libusb_claim_interface"))
                 ELSE LET s7 == [s6 EXCEPT !.handles[h].claimed =
                                               @ \cup {m.data_iface}]
                          s8 == cdc_set_line_coding(s7, 9600, BITS_8,
                                                    STOP_BIT_1, NONE, f)
                      IN  IF s8.ret < 0
                          THEN cdc_usb_close_internal(
                                   cdc_return(s8, s8.ret, NoStr))
                          ELSE [s8 EXCEPT !.ret = CDC_SUCCESS]

(* lines 403-409, then the rest; d is the device, f what fails *)
open_dev(s, mode, d, f) ==
    LET w  == cdc_usb_endpoints_internal(d, f)
        s1 == [s EXCEPT !.calls = @ \o w.calls,
                        !.walk = w.m,
                        !.in_ep = IF w.m.found THEN w.m.in_ep ELSE @,
                        !.out_ep = IF w.m.found THEN w.m.out_ep ELSE @]
    IN  IF w.rc < 0
        THEN cdc_return(s1, w.rc, w.str)
        ELSE IF f.at = "open" \/ ~HasFreeHandle(s1.handles)
        THEN LET rc == IF f.at = "open" THEN f.err ELSE CDC_ERROR_NO_MEM
             IN  cdc_return(Log(s1, Call("open", NULL, d, 0, 0, rc)),
                            rc, "libusb_open")
        ELSE LET h  == FreeHandle(s1.handles)
                 s2 == [Log(s1, Call("open", h, d, 0, 0, 0))
                           EXCEPT !.usb_dev = h,
                                  !.handles[h] = [open |-> TRUE, dev |-> d,
                                                  claimed |-> {},
                                                  configured |-> FALSE]]
             IN  OpenDevConfigure(s2, mode, w.m, f)

----------------------------------------------------------------------------
(* cdc_usb_close                                                           *)

(* A libusb call on a NULL handle dereferences it: the process dies, or    *)
(* the call comes back with some result; f.null says which.                *)
NullCrashes(s, f) == s.usb_dev = NULL /\ f.null = "crash"

NullRc(f) == IF f.null = "nodevice" THEN CDC_ERROR_NO_DEVICE ELSE CDC_SUCCESS

(* libusb_release_interface(cdc->usb_dev, if_num): LIBUSB_ERROR_NOT_FOUND  *)
(* for an interface the handle has not claimed, else success or, when      *)
(* f.rel says so, LIBUSB_ERROR_NO_DEVICE.                                  *)
ReleaseRc(s, if_num, f) ==
    IF s.usb_dev = NULL THEN NullRc(f)
    ELSE IF if_num \notin s.handles[s.usb_dev].claimed THEN CDC_ERROR_NOT_FOUND
    ELSE IF f.rel[if_num + 1] = "ok" THEN 0
    ELSE CDC_ERROR_NO_DEVICE

(* for (if_num = 0; if_num < 2; if_num++); yields the machine and result *)
RECURSIVE ReleaseLoop(_, _, _, _)
ReleaseLoop(s, if_num, f, last) ==
    IF if_num >= 2
    THEN [s |-> s, result |-> last]
    ELSE LET rc == ReleaseRc(s, if_num, f)
             s1 == Log(s, Call("release_interface", s.usb_dev, if_num, 0, 0, rc))
         IN  IF NullCrashes(s, f)
             THEN [s |-> [s1 EXCEPT !.crashed = TRUE], result |-> last]
             ELSE IF rc # CDC_SUCCESS
             THEN [s |-> s1, result |-> rc]
             ELSE ReleaseLoop(
                      IF s.usb_dev = NULL THEN s1
                      ELSE [s1 EXCEPT !.handles[s.usb_dev].claimed =
                                          @ \ {if_num}],
                      if_num + 1, f, rc)

close_return_early(s, f) ==
    LET l == ReleaseLoop(s, 0, f, 0)
    IN  IF l.s.crashed
        THEN l.s
        ELSE IF l.result < 0
        THEN cdc_return(l.s, l.result, "libusb_release_interface")
        ELSE [cdc_usb_close_internal(l.s) EXCEPT !.ret = CDC_SUCCESS]

(* lines 612-626 *)
close(s, f) ==
    LET l == ReleaseLoop(s, 0, f, 0)
    IN  IF l.s.crashed
        THEN l.s
        ELSE LET s2 == cdc_usb_close_internal(l.s)
             IN  IF l.result < 0
                 THEN cdc_return(s2, l.result, "libusb_release_interface")
                 ELSE [s2 EXCEPT !.ret = CDC_SUCCESS]

----------------------------------------------------------------------------
(* cdc_write_data, cdc_read_data                                           *)

(* libusb_bulk_transfer: f.rc and f.actual are what the transfer reports *)
BulkTransfer(s, ep, timeout, f) ==
    IF s.usb_dev = NULL
    THEN LET s1 == Log(s, Call("bulk_transfer", NULL, ep, timeout, 0, NullRc(f)))
         IN  IF NullCrashes(s, f)
             THEN [s |-> [s1 EXCEPT !.crashed = TRUE], result |-> 0,
                   actual_size |-> 0]
             ELSE [s |-> s1, result |-> NullRc(f), actual_size |-> 0]
    ELSE [s |-> Log(s, Call("bulk_transfer", s.usb_dev, ep, timeout,
                            f.actual, f.rc)),
          result |-> f.rc, actual_size |-> f.actual]

TimeoutFixupAlways(result, actual_size) ==
    IF result = CDC_ERROR_TIMEOUT THEN CDC_SUCCESS ELSE result

(* if (result == LIBUSB_ERROR_TIMEOUT && actual_size != 0) result = 0 *)
TimeoutFixup(result, actual_size) ==
    IF result = CDC_ERROR_TIMEOUT /\ actual_size # 0
    THEN CDC_SUCCESS
    ELSE result

(* lines 679-686 and 703-710 *)
TransferResult(t) ==
    IF t.s.crashed
    THEN t.s
    ELSE LET result == TimeoutFixup(t.result, t.actual_size)
         IN  IF result < 0
             THEN cdc_return(t.s, result, "libusb_bulk_transfer")
             ELSE [t.s EXCEPT !.ret = t.actual_size]

write_data(s, wt, f) == TransferResult(BulkTransfer(s, s.in_ep, wt, f))

read_data_on_in_ep(s, rt, f) ==
    TransferResult(BulkTransfer(s, s.in_ep, rt, f))

read_data(s, rt, f) == TransferResult(BulkTransfer(s, s.out_ep, rt, f))

----------------------------------------------------------------------------
(* What the calls into libusb can do in one operation. *)
Errs == {CDC_ERROR_IO, CDC_ERROR_BUSY}

DetachOutcomes == {"ok", "nodata", "eperm"}

NoFault == [at |-> "none", c |-> 0, err |-> 0, det1 |-> "ok", det2 |-> "ok"]

(* A fault is listed for a call only where the call is reached: the walker's *)
(* fetches on a device that has them, the later steps on a device the       *)
(* walker accepts, the detach results in a mode that detaches.              *)
WalkerFaults(d) ==
    {NoFault}
    \cup {[NoFault EXCEPT !.at = "devdesc", !.err = e] : e \in Errs}
    \cup {[NoFault EXCEPT !.at = "cfgdesc", !.c = c, !.err = e] :
              c \in {k \in 0..1 : k < bus[d].bNumConfigurations}, e \in Errs}

DetachPairs(mode) ==
    IF mode = AUTO_DETACH_CDC_MODULE
    THEN DetachOutcomes \X DetachOutcomes
    ELSE {<<"ok", "ok">>}

OpenFaults(d, mode) ==
    IF d = NULL THEN {NoFault}
    ELSE IF cdc_usb_endpoints_internal(d, NoFault).rc < 0 THEN WalkerFaults(d)
    ELSE WalkerFaults(d)
         \cup {[NoFault EXCEPT !.det1 = p[1], !.det2 = p[2]] :
                   p \in DetachPairs(mode)}
         \cup {[at |-> "setcfg", c |-> 0, err |-> e, det1 |-> p[1],
                det2 |-> p[2]] : e \in Errs, p \in DetachPairs(mode)}
         \cup {[NoFault EXCEPT !.at = a, !.err = e] :
                   a \in {"claim", "ctrl"}, e \in Errs}
         \cup {[NoFault EXCEPT !.at = "open", !.err = e] :
                   e \in Errs \cup {CDC_ERROR_ACCESS}}

NullOutcomes == {"crash", "success", "nodevice"}

CloseFaults ==
    {[rel |-> r, null |-> n] :
         r \in [1..2 -> {"ok", "err"}], n \in NullOutcomes}

(* rel is read on an open handle, null on a NULL one *)
CloseFaultsOf(h) ==
    {f \in CloseFaults :
         IF h = NULL THEN f.rel = [k \in 1..2 |-> "ok"] ELSE f.null = "crash"}

BulkFaults ==
    {[rc |-> rc, actual |-> n, null |-> u] :
         rc \in {CDC_SUCCESS, CDC_ERROR_TIMEOUT, CDC_ERROR_IO},
         n \in 0..MaxXfer, u \in NullOutcomes}

(* rc and actual are read on an open handle, null on a NULL one *)
BulkFaultsOf(h) ==
    {f \in BulkFaults :
         IF h = NULL THEN f.rc = CDC_SUCCESS /\ f.actual = 0
         ELSE f.null = "crash"}

Timeouts == {DefaultTimeout, 100}

(* the control transfer is reached only on an open handle *)
CtrlFaultsOf(h) ==
    IF h = NULL THEN {NoFault}
    ELSE {NoFault} \cup {[NoFault EXCEPT !.at = "ctrl", !.err = e] : e \in Errs}

(* enum cdc_bits_type, cdc_stopbits_type, cdc_parity_type *)
BitsTypes == {5, 6, 7, 8, 16}

StopBitsTypes == {0, 1, 2}

ParityTypes == {0, 1, 2, 3, 4}

(* Baud rates, each as <<high 16 bits, low 16 bits>>: 0, 9600, 115200,      *)
(* 0x01020304, 2^31 and 2^32 - 1.                                          *)
Bauds == {<<0, 0>>, <<0, 9600>>, <<1, 49664>>, <<258, 772>>, <<32768, 0>>,
          <<65535, 65535>>}

(* every rate with 8N1, and every bits/stop-bits/parity value with 9600 *)
LineArgs ==
    {[baud |-> b, bits |-> BITS_8, sbit |-> STOP_BIT_1, parity |-> NONE] :
         b \in Bauds}
    \cup [baud : {<<0, 9600>>}, bits : BitsTypes, sbit : StopBitsTypes,
          parity : ParityTypes]

DetachModes == {AUTO_DETACH_CDC_MODULE, DONT_DETACH_CDC_MODULE,
                AUTO_DETACH_REATTACH_CDC_MODULE}

----------------------------------------------------------------------------
(* cdc_usb_find_all, cdc_list_free                                         *)

(* libusb_get_device_list takes a reference on every device of the bus *)
GetList(s) ==
    [Log(s, Call("get_device_list", NULL, 0, 0, 0, Len(bus)))
        EXCEPT !.refs = [d \in DOMAIN @ |-> @[d] + 1]]

FreeListSkip(s) == s

(* libusb_free_device_list(devs, 1) gives every one of them back *)
FreeList(s) ==
    [Log(s, Call("free_device_list", NULL, 1, 0, 0, 0))
        EXCEPT !.refs = [d \in DOMAIN @ |-> @[d] - 1]]

IdsMatchVendorOnly(desc, vendor, product) == desc.idVendor = vendor

(* !(desc.idVendor != vendor || desc.idProduct != product) *)
IdsMatch(desc, vendor, product) ==
    ~(desc.idVendor # vendor \/ desc.idProduct # product)

(* The fault of this call as device i sees it *)
FaultAt(f, i) == IF f.i = i THEN f ELSE NoFault

(* lines 284-292 *)
AppendEntry(s, i) ==
    [Log(s, Call("ref_device", NULL, i, 0, 0, 0))
        EXCEPT !.devlist = Append(@, i), !.refs[i] = @ + 1]

(* while ((dev = devs[i++]) != NULL); device i is the next one, count the  *)
(* entries appended so far                                                 *)
RECURSIVE FindLoop(_, _, _, _, _, _)
FindLoop(s, vendor, product, f, i, count) ==
    IF i > Len(bus)
    THEN [FreeList(s) EXCEPT !.ret = count]
    ELSE LET w  == cdc_usb_endpoints_internal(i, FaultAt(f, i))
             sw == LET s1 == [s EXCEPT !.calls = @ \o w.calls]
                   IN  IF w.rc < 0 THEN cdc_return(s1, w.rc, w.str) ELSE s1
             rc == IF FaultAt(f, i).at = "devdesc" THEN f.err ELSE 0
             sd == Log(s, Call("get_device_descriptor", NULL, i, 0, 0, rc))
             sa == IF vendor = 0 /\ product = 0 THEN sw ELSE sd
         IN  IF vendor = 0 /\ product = 0 /\ w.rc = CDC_ERROR_NOT_FOUND
             THEN FindLoop(sw, vendor, product, f, i + 1, count)
             ELSE IF vendor = 0 /\ product = 0 /\ w.rc < 0
             THEN FreeList(cdc_return(sw, w.rc, NoStr))
             ELSE IF ~(vendor = 0 /\ product = 0) /\ rc < 0
             THEN FreeList(cdc_return(sd, rc, "libusb_get_device_descriptor"))
             ELSE IF ~(vendor = 0 /\ product = 0)
                     /\ ~IdsMatch(bus[i], vendor, product)
             THEN FindLoop(sd, vendor, product, f, i + 1, count)
             ELSE IF FaultAt(f, i).at = "malloc"
             THEN FreeList(cdc_return(sa, CDC_ERROR_NO_MEM, "out of memory"))
             ELSE FindLoop(AppendEntry(sa, i), vendor, product, f, i + 1,
                           count + 1)

(* lines 261-264, then the loop *)
find_all(s, vendor, product, f) ==
    IF f.at = "list"
    THEN cdc_return(Log(s, Call("get_device_list", NULL, 0, 0, 0, f.err)),
                    f.err, "libusb_get_device_list")
    ELSE FindLoop([GetList(s) EXCEPT !.devlist = <<>>], vendor, product, f, 1, 0)

(* for (curdev = *devlist; curdev != NULL;) *)
RECURSIVE UnrefLoop(_, _)
UnrefLoop(s, k) ==
    IF k > Len(s.devlist)
    THEN s
    ELSE UnrefLoop([Log(s, Call("unref_device", NULL, s.devlist[k], 0, 0, 0))
                       EXCEPT !.refs[s.devlist[k]] = @ - 1], k + 1)

list_free_no_unref(s) == [s EXCEPT !.devlist = <<>>, !.ret = 0]

(* lines 303-316 *)
list_free(s) == [UnrefLoop(s, 1) EXCEPT !.devlist = <<>>, !.ret = 0]

(* What can fail in one cdc_usb_find_all: the list fetch, a descriptor     *)
(* fetch on device i, or the malloc of device i's entry.                   *)
FindFault(at, i, c, err) == [at |-> at, i |-> i, c |-> c, err |-> err]

FindFaults(vendor, product) ==
    {FindFault("none", 0, 0, 0)}
    \cup {FindFault("list", 0, 0, e) : e \in Errs}
    \cup {FindFault("devdesc", i, 0, e) : i \in 1..Len(bus), e \in Errs}
    \cup {FindFault("cfgdesc", i, c, CDC_ERROR_IO) :
              i \in {k \in 1..Len(bus) : vendor = 0 /\ product = 0},
              c \in {k \in 0..1 : \E j \in 1..Len(bus) :
                                     k < bus[j].bNumConfigurations}}
    \cup {FindFault("malloc", i, 0, CDC_ERROR_NO_MEM) : i \in 1..Len(bus)}

----------------------------------------------------------------------------
(* cdc_usb_open_desc_index, cdc_usb_open_bus_addr                          *)

(* libusb_open(dev, &cdc->usb_dev) in the scan: the handle is stored only  *)
(* when the call succeeds.                                                 *)
ScanOpen(s, i, f) ==
    IF FaultAt(f, i).at = "scanopen" \/ ~HasFreeHandle(s.handles)
    THEN LET rc == IF FaultAt(f, i).at = "scanopen" THEN f.err
                   ELSE CDC_ERROR_NO_MEM
         IN  [Log(s, Call("open", NULL, i, 0, 0, rc)) EXCEPT !.ret = rc]
    ELSE LET h == FreeHandle(s.handles)
         IN  [Log(s, Call("open", h, i, 0, 0, 0))
                 EXCEPT !.usb_dev = h, !.ret = 0,
                        !.handles[h] = [open |-> TRUE, dev |-> i,
                                        claimed |-> {}, configured |-> FALSE]]

(* libusb_get_string_descriptor_ascii: the length of the string, or the    *)
(* error of f when this is the read that fails; the strings of the bus are *)
(* ASCII and shorter than the 256 bytes of the buffer.                     *)
StringRc(str, i, which, f) ==
    IF FaultAt(f, i).at = which THEN f.err ELSE Len(str)

(* strncmp(string, filter, sizeof(string)) != 0 *)
StrDiffers(string, filter) == string # filter

NextIndexStuck(index) == index

(* index -- *)
NextIndex(index) == index - 1

(* The call into cdc_usb_open_dev is logged as well, then its libusb calls *)
OpenSelected(s, mode, i, f) ==
    LET r == open_dev(Log(s, Call("cdc_usb_open_dev", NULL, i, 0, 0, 0)),
                      mode, i, f)
    IN  [FreeList(r) EXCEPT !.ret = r.ret]

(* lines 509-567; a is the arguments, index what is left of a.index *)
RECURSIVE DescLoop(_, _, _, _, _, _)
DescLoop(s, mode, a, f, i, index) ==
    IF i > Len(bus)
    THEN cdc_return(s, CDC_ERROR_NOT_FOUND, "device not found")
    ELSE LET rc == IF FaultAt(f, i).at = "scandesc" THEN f.err ELSE 0
             s1 == Log(s, Call("get_device_descriptor", NULL, i, 0, 0, rc))
             s2 == ScanOpen(s1, i, f)
             r3 == StringRc(bus[i].product, i, "product", f)
             s3 == IF a.description # NoStr
                   THEN Log(s2, Call("get_string_descriptor_ascii", s2.usb_dev,
                                     i, "product", 0, r3))
                   ELSE s2
             r4 == StringRc(bus[i].serial, i, "serial", f)
             s4 == IF a.serial # NoStr
                   THEN Log(s3, Call("get_string_descriptor_ascii", s3.usb_dev,
                                     i, "serial", 0, r4))
                   ELSE s3
         IN  IF rc < 0
             THEN FreeList(cdc_return(s1, rc, "libusb_get_device_descriptor"))
             ELSE IF ~(bus[i].idVendor = a.vendor /\ bus[i].idProduct = a.product)
             THEN DescLoop(s1, mode, a, f, i + 1, index)
             ELSE IF s2.ret < 0
             THEN FreeList(cdc_return(s2, s2.ret, "usb_open"))
             ELSE IF a.description # NoStr /\ r3 < 0
             THEN FreeList(cdc_return(s3, r3,
                      "libusb_get_string_descriptor_ascii product description"))
             ELSE IF a.description # NoStr
                     /\ StrDiffers(bus[i].product, a.description)
             THEN DescLoop(cdc_usb_close_internal(s3), mode, a, f, i + 1, index)
             ELSE IF a.serial # NoStr /\ r4 < 0
             THEN FreeList(cdc_return(s4, r4,
                      "libusb_get_string_descriptor_ascii serial number"))
             ELSE IF a.serial # NoStr /\ StrDiffers(bus[i].serial, a.serial)
             THEN DescLoop(cdc_usb_close_internal(s4), mode, a, f, i + 1, index)
             ELSE IF index > 0
             THEN DescLoop(cdc_usb_close_internal(s4), mode, a, f, i + 1,
                           NextIndex(index))
             ELSE OpenSelected(cdc_usb_close_internal(s4), mode, i, f)

(* lines 505-507, then the loop *)
open_desc_index(s, mode, a, f) ==
    IF f.at = "list"
    THEN cdc_return(Log(s, Call("get_device_list", NULL, 0, 0, 0, f.err)),
                    f.err, "libusb_get_device_list")
    ELSE DescLoop(GetList(s), mode, a, f, 1, a.index)

BusAddrMatchBusOnly(dev, busnum, addr) == dev.bus_number = busnum

(* libusb_get_bus_number(dev) == bus && libusb_get_device_address(dev) == addr *)
BusAddrMatch(dev, busnum, addr) ==
    dev.bus_number = busnum /\ dev.device_address = addr

(* lines 590-600 *)
RECURSIVE BusAddrLoop(_, _, _, _, _, _)
BusAddrLoop(s, mode, busnum, addr, f, i) ==
    IF i > Len(bus)
    THEN cdc_return(s, CDC_ERROR_NOT_FOUND, "device not found")
    ELSE IF BusAddrMatch(bus[i], busnum, addr)
    THEN OpenSelected(s, mode, i, f)
    ELSE BusAddrLoop(s, mode, busnum, addr, f, i + 1)

(* lines 586-588, then the loop *)
open_bus_addr(s, mode, busnum, addr, f) ==
    IF f.at = "list"
    THEN cdc_return(Log(s, Call("get_device_list", NULL, 0, 0, 0, f.err)),
                    f.err, "libusb_get_device_list")
    ELSE BusAddrLoop(GetList(s), mode, busnum, addr, f, 1)

(* What can fail in one of them: the list fetch, in the scan of device i   *)
(* the descriptor fetch, the open or a string read, and in the open of the *)
(* selected device its open, set-configuration, claim or line coding.      *)
ScanFault(at, i, err) ==
    [at |-> at, i |-> i, c |-> 0, err |-> err, det1 |-> "ok", det2 |-> "ok"]

SelectedFaults ==
    {ScanFault("none", 0, 0)}
    \cup {ScanFault("list", 0, e) : e \in Errs}
    \cup {ScanFault(at, 0, CDC_ERROR_IO) : at \in {"open", "setcfg", "claim", "ctrl"}}

DescFaults(a) ==
    SelectedFaults
    \cup {ScanFault("scandesc", i, CDC_ERROR_IO) : i \in 1..Len(bus)}
    \cup {ScanFault(at, i, CDC_ERROR_IO) :
              at \in {"scanopen"}
                     \cup {w \in {"product"} : a.description # NoStr}
                     \cup {w \in {"serial"} : a.serial # NoStr},
              i \in {k \in 1..Len(bus) : /\ bus[k].idVendor = a.vendor
                                         /\ bus[k].idProduct = a.product}}

----------------------------------------------------------------------------
(* cdc_usb_get_strings, cdc_deinit                                         *)

(* The three strings in the order they are read: whether a buffer was      *)
(* given, which string it is, and the label of a failed read.              *)
StringReads(a) ==
    <<[want |-> a.manufacturer, which |-> "manufacturer",
       str |-> "libusb_get_string_descriptor_ascii manufacturer"],
      [want |-> a.description, which |-> "product",
       str |-> "libusb_get_string_descriptor_ascii product"],
      [want |-> a.serial, which |-> "serial",
       str |-> "libusb_get_string_descriptor_ascii serial"]>>

(* lines 361-392 *)
RECURSIVE ReadStrings(_, _, _, _, _, _)
ReadStrings(s, d, a, f, need_open, k) ==
    IF k > 3
    THEN [(IF need_open THEN cdc_usb_close_internal(s) ELSE s) EXCEPT !.ret = 0]
    ELSE LET r  == StringReads(a)[k]
             rc == StringRc(bus[d][r.which], d, r.which, f)
             s1 == Log(s, Call("get_string_descriptor_ascii", s.usb_dev, d,
                               r.which, 0, rc))
         IN  IF ~r.want
             THEN ReadStrings(s, d, a, f, need_open, k + 1)
             ELSE IF rc < 0
             THEN LET s2 == cdc_return(s1, rc, r.str)
                  IN  IF need_open THEN cdc_usb_close_internal(s2) ELSE s2
             ELSE ReadStrings(s1, d, a, f, need_open, k + 1)

(* lines 351-359, then the reads *)
get_strings(s, d, a, f) ==
    IF d = NULL
    THEN cdc_return(s, CDC_ERROR_INVALID_PARAM, "struct libusb_device *dev")
    ELSE LET need_open == s.usb_dev = NULL
             s1 == IF need_open THEN ScanOpen(s, d, f) ELSE [s EXCEPT !.ret = 0]
             rc == IF FaultAt(f, d).at = "scandesc" THEN f.err ELSE 0
             s2 == Log(s1, Call("get_device_descriptor", NULL, d, 0, 0, rc))
         IN  IF s1.ret < 0
             THEN cdc_return(s1, s1.ret, "libusb_open")
             ELSE IF rc < 0
             THEN cdc_return(s2, rc, "libusb_get_device_descriptor")
             ELSE ReadStrings(s2, d, a, f, need_open, 1)

(* Which of the calls of cdc_usb_get_strings on device d fails, if any *)
StringsFaults(d, a) ==
    {ScanFault("none", 0, 0)}
    \cup {ScanFault(at, d, CDC_ERROR_IO) :
              at \in {w \in {"scanopen"} : usb_dev = NULL /\ d # NULL}
                     \cup {w \in {"scandesc"} : d # NULL}
                     \cup {w \in {"manufacturer"} : d # NULL /\ a.manufacturer}
                     \cup {w \in {"product"} : d # NULL /\ a.description}
                     \cup {w \in {"serial"} : d # NULL /\ a.serial}}

deinit_exit_always(s) ==
    [Log(cdc_usb_close_internal(s), Call("exit", NULL, 0, 0, 0, 0))
        EXCEPT !.usb_ctx = FALSE, !.ret = 0]

(* lines 182-195 *)
deinit(s) ==
    LET s1 == cdc_usb_close_internal(s)
    IN  IF s1.usb_ctx
        THEN [Log(s1, Call("exit", NULL, 0, 0, 0, 0))
                 EXCEPT !.usb_ctx = FALSE, !.ret = 0]
        ELSE [s1 EXCEPT !.ret = 0]

----------------------------------------------------------------------------
(* The public operations, each one whole call. *)
Commit(name, arg, s) ==
    /\ ~crashed
    /\ usb_dev' = s.usb_dev
    /\ in_ep' = s.in_ep
    /\ out_ep' = s.out_ep
    /\ error_str' = s.error_str
    /\ error_code' = s.error_code
    /\ handles' = s.handles
    /\ errno' = s.errno
    /\ crashed' = s.crashed
    /\ op' = [name |-> name, arg |-> arg]
    /\ ret' = s.ret
    /\ calls' = s.calls
    /\ walk' = s.walk
    /\ devlist' = s.devlist
    /\ refs' = s.refs
    /\ usb_ctx' = s.usb_ctx
    /\ UNCHANGED bus

cdc_usb_open_dev(d, f) ==
    /\ Commit("cdc_usb_open_dev", d, open_dev(Machine, module_detach_mode, d, f))
    /\ UNCHANGED <<usb_read_timeout, usb_write_timeout, module_detach_mode>>

cdc_usb_close(f) ==
    /\ Commit("cdc_usb_close", 0, close(Machine, f))
    /\ UNCHANGED <<usb_read_timeout, usb_write_timeout, module_detach_mode>>

cdc_write_data(f) ==
    /\ Commit("cdc_write_data", MaxXfer, write_data(Machine, usb_write_timeout, f))
    /\ UNCHANGED <<usb_read_timeout, usb_write_timeout, module_detach_mode>>

cdc_read_data(f) ==
    /\ Commit("cdc_read_data", MaxXfer, read_data(Machine, usb_read_timeout, f))
    /\ UNCHANGED <<usb_read_timeout, usb_write_timeout, module_detach_mode>>

SetLineCoding(a, f) ==
    /\ Commit("cdc_set_line_coding", a,
              cdc_set_line_coding(Machine, IntOf(a.baud), a.bits, a.sbit,
                                  a.parity, f))
    /\ UNCHANGED <<usb_read_timeout, usb_write_timeout, module_detach_mode>>

cdc_setdtr_rts(dtr, rts, f) ==
    /\ Commit("cdc_setdtr_rts", <<dtr, rts>>, setdtr_rts(Machine, dtr, rts, f))
    /\ UNCHANGED <<usb_read_timeout, usb_write_timeout, module_detach_mode>>

cdc_usb_find_all(vendor, product, f) ==
    /\ Commit("cdc_usb_find_all", <<vendor, product>>,
              find_all(Machine, vendor, product, f))
    /\ UNCHANGED <<usb_read_timeout, usb_write_timeout, module_detach_mode>>

cdc_list_free ==
    /\ Commit("cdc_list_free", 0, list_free(Machine))
    /\ UNCHANGED <<usb_read_timeout, usb_write_timeout, module_detach_mode>>

cdc_usb_open_desc_index(a, f) ==
    /\ Commit("cdc_usb_open_desc_index", a,
              open_desc_index(Machine, module_detach_mode, a, f))
    /\ UNCHANGED <<usb_read_timeout, usb_write_timeout, module_detach_mode>>

cdc_usb_open_bus_addr(busnum, addr, f) ==
    /\ Commit("cdc_usb_open_bus_addr", <<busnum, addr>>,
              open_bus_addr(Machine, module_detach_mode, busnum, addr, f))
    /\ UNCHANGED <<usb_read_timeout, usb_write_timeout, module_detach_mode>>

cdc_usb_get_strings(d, a, f) ==
    /\ Commit("cdc_usb_get_strings", <<d, a>>, get_strings(Machine, d, a, f))
    /\ UNCHANGED <<usb_read_timeout, usb_write_timeout, module_detach_mode>>

cdc_deinit ==
    /\ Commit("cdc_deinit", 0, deinit(Machine))
    /\ UNCHANGED <<usb_read_timeout, usb_write_timeout, module_detach_mode>>

(* The caller writes the public fields of struct cdc_ctx. *)
SetTimeouts(rt, wt) ==
    /\ Commit("set_timeouts", 0, Machine)
    /\ usb_read_timeout' = rt
    /\ usb_write_timeout' = wt
    /\ UNCHANGED module_detach_mode

SetDetachMode(mode) ==
    /\ Commit("set_detach_mode", mode, Machine)
    /\ module_detach_mode' = mode
    /\ UNCHANGED <<usb_read_timeout, usb_write_timeout>>

(* The walker alone, called as cdc_usb_open_dev calls it (line 408). *)
WalkerCall(d, f) ==
    LET w == cdc_usb_endpoints_internal(d, f)
        s == [Machine EXCEPT !.calls = w.calls,
                             !.walk = w.m,
                             !.in_ep = IF w.m.found THEN w.m.in_ep ELSE @,
                             !.out_ep = IF w.m.found THEN w.m.out_ep ELSE @]
    IN  /\ Commit("cdc_usb_endpoints_internal", d,
                  IF w.rc < 0 THEN cdc_return(s, w.rc, w.str)
                  ELSE [s EXCEPT !.ret = CDC_SUCCESS])
        /\ UNCHANGED <<usb_read_timeout, usb_write_timeout, module_detach_mode>>

----------------------------------------------------------------------------
(* The devices of the bus. *)
(* data interface 0 of configuration 0, OUT endpoint declared first *)
DevDataFirst ==
    Device(<<Config(<<Interface(<<Setting(10, <<Endpoint(1), Endpoint(130)>>)>>),
                      Interface(<<Setting(2, <<Endpoint(131)>>)>>)>>)>>)

(* data interface 2 of configuration 1, IN endpoint declared first *)
DevComposite ==
    Device(<<Config(<<Interface(<<Setting(3, <<Endpoint(132)>>)>>)>>),
             Config(<<Interface(<<Setting(8, <<Endpoint(134), Endpoint(7)>>)>>),
                      Interface(<<Setting(2, <<Endpoint(136)>>)>>),
                      Interface(<<Setting(10, <<>>),
                                  Setting(10, <<Endpoint(133), Endpoint(5)>>)>>)>>)>>)

(* no CDC data interface *)
DevHid == Device(<<Config(<<Interface(<<Setting(3, <<Endpoint(129)>>)>>)>>)>>)

MainBus == <<DevDataFirst, DevComposite, DevHid>>

(* A device as enumeration sees it: its descriptor tree, the ids and the   *)
(* strings of its device descriptor, and where it sits.                    *)
UsbDevice(dev, vid, pid, product, serial, busnum, addr) ==
    [bNumConfigurations |-> dev.bNumConfigurations, config |-> dev.config,
     idVendor |-> vid, idProduct |-> pid, manufacturer |-> "acme",
     product |-> product,
     serial |-> serial, bus_number |-> busnum, device_address |-> addr]

(* Generated buses: up to MaxBus devices, each a CDC device with ids 1:1,  *)
(* a CDC device with ids 1:2 or a device without a CDC data interface with *)
(* ids 1:1, at the address of its place in the enumeration.                *)
EnumKinds ==
    {UsbDevice(DevDataFirst, 1, 1, "uart", "A", 1, 0),
     UsbDevice(DevComposite, 1, 2, "modem", "B", 1, 0),
     UsbDevice(DevHid, 1, 1, "uart", "C", 1, 0)}

EnumBuses ==
    {[i \in 1..Len(ks) |-> [ks[i] EXCEPT !.device_address = i]] :
         ks \in UNION {[1..m -> EnumKinds] : m \in 0..MaxBus}}

(* The bus the selecting opens run on: two CDC devices with ids 1:1 that  *)
(* differ in their serial, and between them a device with ids 1:2 that has *)
(* no CDC data interface.                                                  *)
OpenBus ==
    <<UsbDevice(DevDataFirst, 1, 1, "uart", "A", 1, 1),
      UsbDevice(DevHid, 1, 2, "kbd", "A", 1, 2),
      UsbDevice(DevComposite, 1, 1, "uart", "B", 2, 1)>>

DescArgs ==
    [vendor : {1}, product : {1, 2}, description : {NoStr, "uart"},
     serial : {NoStr, "A", "B"}, index : {0, 1}]

(* the vendor and product arguments *)
IdPairs == {<<0, 0>>, <<1, 1>>, <<1, 2>>, <<0, 1>>}

(* Generated descriptor trees: up to MaxSettings alternate settings, each   *)
(* starting a new configuration, a new interface or a new alternate.       *)
SettingKinds ==
    {Setting(2, <<Endpoint(131)>>), Setting(10, <<>>),
     Setting(10, <<Endpoint(129)>>),
     Setting(10, <<Endpoint(129), Endpoint(2)>>),
     Setting(10, <<Endpoint(2), Endpoint(129)>>)}

Breaks == {"config", "interface", "alt"}

AddSetting(cfgs, brk, st) ==
    IF brk = "config" \/ cfgs = <<>>
    THEN Append(cfgs, <<<<st>>>>)
    ELSE LET nc == Len(cfgs)
             ni == Len(cfgs[nc])
         IN  IF brk = "interface"
             THEN [cfgs EXCEPT ![nc] = Append(@, <<st>>)]
             ELSE [cfgs EXCEPT ![nc][ni] = Append(@, st)]

RECURSIVE BuildTree(_, _, _)
BuildTree(flat, k, cfgs) ==
    IF k > Len(flat) THEN cfgs
    ELSE BuildTree(flat, k + 1, AddSetting(cfgs, flat[k].brk, flat[k].st))

ToDevice(cfgs) ==
    Device([c \in 1..Len(cfgs) |->
               Config([i \in 1..Len(cfgs[c]) |-> Interface(cfgs[c][i])])])

FlatTrees ==
    UNION {[1..n -> [brk : Breaks, st : SettingKinds]] : n \in 0..MaxSettings}

Trees ==
    {ToDevice(BuildTree(flat, 1, <<>>)) : flat \in FlatTrees}
    \cup {Device(<<Config(<<>>)>>)}

----------------------------------------------------------------------------
(* What malloc'ed memory that cdc_init does not write can hold. *)
Uninit == {0, 255}

InitCtx ==
    /\ usb_ctx = TRUE
    /\ usb_dev = NULL
    /\ usb_read_timeout = DefaultTimeout
    /\ usb_write_timeout = DefaultTimeout
    /\ error_str = "cdc_init"
    /\ module_detach_mode = AUTO_DETACH_CDC_MODULE
    /\ in_ep \in Uninit
    /\ out_ep \in Uninit
    /\ error_code \in Uninit
    /\ handles = [h \in Handles |-> ClosedHandle]
    /\ errno = NoErrno
    /\ crashed = FALSE
    /\ op = [name |-> "cdc_init", arg |-> 0]
    /\ ret = CDC_SUCCESS
    /\ calls = <<>>
    /\ walk = NoMatch
    /\ devlist = <<>>
    /\ refs = [d \in 1..Len(bus) |-> 0]

Init == bus = MainBus /\ InitCtx

OpenDevStep ==
    \E d \in 0..Len(bus) :
        \E f \in OpenFaults(d, module_detach_mode) : cdc_usb_open_dev(d, f)

CloseStep == \E f \in CloseFaultsOf(usb_dev) : cdc_usb_close(f)

WriteStep == \E f \in BulkFaultsOf(usb_dev) : cdc_write_data(f)

ReadStep == \E f \in BulkFaultsOf(usb_dev) : cdc_read_data(f)

(* Session lifecycle: open, close and the detach policy. *)
Next ==
    \/ OpenDevStep
    \/ CloseStep
    \/ \E mode \in DetachModes : SetDetachMode(mode)

Spec == Init /\ [][Next]_vars

(* Serial I/O on a session that the caller opens only while it holds no    *)
(* handle: open, close, read, write and the timeouts.                      *)
NextIO ==
    \/ usb_dev = NULL /\ OpenDevStep
    \/ CloseStep
    \/ WriteStep
    \/ ReadStep
    \/ \E rt \in Timeouts, wt \in Timeouts : SetTimeouts(rt, wt)

SpecIO == Init /\ [][NextIO]_vars

(* The control requests on a session that the caller opens while it holds *)
(* no handle: line coding and the DTR/RTS lines.                           *)
OpenOkStep == \E d \in 1..Len(bus) : cdc_usb_open_dev(d, NoFault)

SetLineCodingStep ==
    \E a \in LineArgs : \E f \in CtrlFaultsOf(usb_dev) : SetLineCoding(a, f)

SetDtrRtsStep ==
    \E dtr \in {0, 1}, rts \in {0, 1} :
        \E f \in CtrlFaultsOf(usb_dev) : cdc_setdtr_rts(dtr, rts, f)

NextLine ==
    \/ usb_dev = NULL /\ OpenOkStep
    \/ CloseStep
    \/ SetLineCodingStep
    \/ SetDtrRtsStep

SpecLine == Init /\ [][NextLine]_vars

(* Enumeration over every generated bus; the caller frees the list it     *)
(* holds before it asks for another.                                       *)
InitEnum == bus \in EnumBuses /\ InitCtx

FindAllStep ==
    \E p \in IdPairs :
        \E f \in FindFaults(p[1], p[2]) : cdc_usb_find_all(p[1], p[2], f)

NextEnum ==
    \/ devlist = <<>> /\ FindAllStep
    \/ cdc_list_free

SpecEnum == InitEnum /\ [][NextEnum]_vars

(* Opening by ids, strings and index or by bus and address, on a session  *)
(* that holds no handle; a handle a failed open leaves behind is closed    *)
(* with cdc_usb_close.                                                     *)
InitOpen == bus = OpenBus /\ InitCtx

OpenDescIndexStep ==
    \E a \in DescArgs : \E f \in DescFaults(a) : cdc_usb_open_desc_index(a, f)

OpenBusAddrStep ==
    \E busnum \in {1, 2}, addr \in {1, 2} :
        \E f \in SelectedFaults : cdc_usb_open_bus_addr(busnum, addr, f)

ListsLeaked == \E d \in DOMAIN refs : refs[d] >= MaxLeaks

NextOpen ==
    \/ usb_dev = NULL /\ ~ListsLeaked /\ OpenDescIndexStep
    \/ usb_dev = NULL /\ ~ListsLeaked /\ OpenBusAddrStep
    \/ usb_dev # NULL /\ CloseStep

SpecOpen == InitOpen /\ [][NextOpen]_vars

(* The life of a session: opened while it holds no handle, its strings    *)
(* read, closed, and deinitialised, after which only cdc_deinit is called  *)
(* on it.                                                                  *)
LifeOpenStep ==
    \E d \in 1..Len(bus) :
        \E f \in {NoFault} \cup {[NoFault EXCEPT !.at = at, !.err = CDC_ERROR_IO] :
                                     at \in {"open", "setcfg", "claim", "ctrl"}} :
            cdc_usb_open_dev(d, f)

StringArgs == [manufacturer : BOOLEAN, description : BOOLEAN, serial : BOOLEAN]

GetStringsStep ==
    \E d \in 0..Len(bus), a \in StringArgs :
        \E f \in StringsFaults(d, a) : cdc_usb_get_strings(d, a, f)

NextLife ==
    \/ usb_ctx /\ usb_dev = NULL /\ LifeOpenStep
    \/ usb_ctx /\ GetStringsStep
    \/ usb_ctx /\ usb_dev # NULL /\ CloseStep
    \/ cdc_deinit

SpecLife == InitOpen /\ [][NextLife]_vars

(* The walker over every generated descriptor tree. *)
InitWalker == bus \in {<<t>> : t \in Trees} /\ InitCtx

NextWalker == \E f \in WalkerFaults(1) : WalkerCall(1, f)

SpecWalker == InitWalker /\ [][NextWalker]_vars

----------------------------------------------------------------------------
(* Properties.                                                             *)

IsOp(name) == op.name = name

CallsOf(log, fn) == {i \in 1..Len(log) : log[i].fn = fn}

Bit80(addr) == addr >= DirIn /\ addr < 2 * DirIn

(* The handle the last cdc_usb_open_dev got from libusb_open, NULL if none *)
OpenedHandle ==
    IF \E i \in CallsOf(calls, "open") : calls[i].rc = 0
    THEN calls[CHOOSE i \in CallsOf(calls, "open") : calls[i].rc = 0].h
    ELSE NULL

(* C1: a cdc_usb_open_dev that fails after libusb_open succeeded (at the   *)
(* detach, set-configuration, claim or line-coding step) leaves the        *)
(* session Closed: usb_dev is NULL, the handle it opened is closed and     *)
(* claims no interface.                                                    *)
C1_FailedOpenIsClosed ==
    (IsOp("cdc_usb_open_dev") /\ ret < 0 /\ OpenedHandle # NULL)
        => /\ usb_dev = NULL
           /\ ~handles[OpenedHandle].open
           /\ handles[OpenedHandle].claimed = {}

(* C2: after every operation, usb_dev is non-NULL exactly when its handle  *)
(* has an interface claimed and a configuration set.                       *)
C2_HandleIffClaimedAndConfigured ==
    ~crashed =>
        ((usb_dev # NULL) <=>
             \E h \in Handles : /\ h = usb_dev
                                /\ handles[h].open
                                /\ handles[h].claimed # {}
                                /\ handles[h].configured)

(* C3: a failed cdc_usb_open_dev leaves usb_dev, in_ep, out_ep, the        *)
(* timeouts and the detach mode as they were before the call.              *)
C3_FailedOpenChangesNothing ==
    [][(op'.name = "cdc_usb_open_dev" /\ ret' < 0)
           => /\ usb_dev' = usb_dev
              /\ in_ep' = in_ep
              /\ out_ep' = out_ep
              /\ usb_read_timeout' = usb_read_timeout
              /\ usb_write_timeout' = usb_write_timeout
              /\ module_detach_mode' = module_detach_mode]_vars

(* C4: cdc_usb_close on a session whose usb_dev is NULL issues no libusb   *)
(* call, returns CDC_SUCCESS and changes no field of the session.          *)
C4_CloseOnClosedIsNoOp ==
    [][(usb_dev = NULL /\ op'.name = "cdc_usb_close")
           => /\ calls' = <<>>
              /\ ~crashed'
              /\ ret' = CDC_SUCCESS
              /\ UNCHANGED <<usb_dev, in_ep, out_ep, error_str, error_code,
                             usb_read_timeout, usb_write_timeout,
                             module_detach_mode>>]_vars

(* C5: cdc_usb_close on a session that holds a handle ends with usb_dev    *)
(* NULL and that handle closed by libusb_close; a release that fails is    *)
(* the last release attempted, and its code is what close returns.         *)
C5_CloseAlwaysCloses ==
    (IsOp("cdc_usb_close") /\ calls[1].h # NULL)
        => /\ usb_dev = NULL
           /\ ~handles[calls[1].h].open
           /\ calls[Len(calls)].fn = "close"
           /\ calls[Len(calls)].h = calls[1].h
           /\ \A i \in CallsOf(calls, "release_interface") :
                  calls[i].rc # 0
                      => /\ \A j \in CallsOf(calls, "release_interface") : j <= i
                         /\ ret = calls[i].rc

C5_Witness ==
    /\ IsOp("cdc_usb_close")
    /\ Len(calls) = 2
    /\ calls[1].h # NULL
    /\ calls[1].fn = "release_interface" /\ calls[1].rc = CDC_ERROR_NO_DEVICE
    /\ calls[2].fn = "close" /\ calls[2].h = calls[1].h
    /\ ret = CDC_ERROR_NO_DEVICE
    /\ usb_dev = NULL

(* C6: cdc_usb_close on an opened session issues libusb_release_interface  *)
(* for exactly the interfaces the handle has claimed.                      *)
C6_CloseReleasesTheClaimed ==
    [][(usb_dev # NULL /\ handles[usb_dev].claimed # {}
            /\ op'.name = "cdc_usb_close")
           => {calls'[i].a : i \in CallsOf(calls', "release_interface")}
                  = handles[usb_dev].claimed]_vars

----------------------------------------------------------------------------
(* The walker, stated over the descriptor tree. *)
SettingAt(dev, p) == dev.config[p[1] + 1].interface[p[2] + 1].altsetting[p[3] + 1]

Positions(dev) ==
    {p \in (0..MaxSettings) \X (0..MaxSettings) \X (0..MaxSettings) :
        /\ p[1] < Len(dev.config)
        /\ p[2] < Len(dev.config[p[1] + 1].interface)
        /\ p[3] < Len(dev.config[p[1] + 1].interface[p[2] + 1].altsetting)}

DataPositions(dev) ==
    {p \in Positions(dev) :
        /\ SettingAt(dev, p).bInterfaceClass = 10
        /\ Len(SettingAt(dev, p).endpoint) >= 1}

Before(p, q) ==
    \/ p[1] < q[1]
    \/ p[1] = q[1] /\ p[2] < q[2]
    \/ p[1] = q[1] /\ p[2] = q[2] /\ p[3] < q[3]

FirstDataPosition(dev) ==
    CHOOSE p \in DataPositions(dev) :
        \A q \in DataPositions(dev) : q = p \/ Before(p, q)

WalkerReturned ==
    /\ IsOp("cdc_usb_endpoints_internal")
    /\ \A i \in 1..Len(calls) : calls[i].rc = 0

(* C7: when no descriptor fetch fails, the walker succeeds exactly when    *)
(* some alternate setting has class 10 and an endpoint; it then returns    *)
(* the configuration and interface index of the first such setting in      *)
(* (configuration, interface, alternate) order, with the control           *)
(* interface the other index of the same even/odd pair; otherwise it       *)
(* fails with CDC_ERROR_NOT_FOUND.                                         *)
C7_WalkerFirstMatch ==
    WalkerReturned =>
        IF DataPositions(bus[1]) # {}
        THEN LET p == FirstDataPosition(bus[1])
             IN  /\ ret = CDC_SUCCESS
                 /\ walk.found
                 /\ walk.cfg_idx = p[1]
                 /\ walk.data_iface = p[2]
                 /\ walk.ctrl_iface # walk.data_iface
                 /\ walk.ctrl_iface \div 2 = walk.data_iface \div 2
        ELSE ret = CDC_ERROR_NOT_FOUND /\ ~walk.found

C7_Witness ==
    /\ WalkerReturned
    /\ Cardinality(DataPositions(bus[1])) = 2
    /\ Cardinality(Positions(bus[1])) = 2
    /\ FirstDataPosition(bus[1]) = <<0, 0, 0>>
    /\ <<0, 1, 0>> \in DataPositions(bus[1])
    /\ walk.data_iface = 0 /\ walk.ctrl_iface = 1

(* The endpoints of the setting the walker matched *)
MatchedEndpoints ==
    LET st == SettingAt(bus[1], FirstDataPosition(bus[1]))
    IN  [k \in 1..Len(st.endpoint) |-> st.endpoint[k].bEndpointAddress]

TwoOpposite(eps) == Len(eps) = 2 /\ (Bit80(eps[1]) # Bit80(eps[2]))

----------------------------------------------------------------------------
(* The device-to-host and host-to-device endpoint of device d's data setting *)
DataEndpoints(d) ==
    LET st == SettingAt(bus[d], FirstDataPosition(bus[d]))
    IN  {st.endpoint[k].bEndpointAddress : k \in 1..Len(st.endpoint)}

SessionOpenOn(d) ==
    /\ usb_dev # NULL
    /\ handles[usb_dev].dev = d
    /\ handles[usb_dev].claimed # {}

C10_TimeoutHandling ==
    [][(op'.name \in {"cdc_read_data", "cdc_write_data"} /\ ~crashed')
           => LET c == calls'[1]
              IN  /\ (c.rc = CDC_ERROR_TIMEOUT /\ c.n # 0)
                         => /\ ret' = c.n
                            /\ error_str' = error_str
                            /\ error_code' = error_code
                  /\ (c.rc = CDC_ERROR_TIMEOUT /\ c.n = 0)
                         => ret' = CDC_ERROR_TIMEOUT
                  /\ (c.rc < 0 /\ c.rc # CDC_ERROR_TIMEOUT)
                         => ret' = c.rc]_vars

C10_Witness ==
    /\ IsOp("cdc_write_data")
    /\ calls[1].h # NULL
    /\ calls[1].rc = CDC_ERROR_TIMEOUT
    /\ calls[1].n = 1
    /\ ret = 1
    /\ error_code # CDC_ERROR_TIMEOUT

----------------------------------------------------------------------------
(* C11: cdc_read_data and cdc_write_data called on a session whose usb_dev *)
(* is NULL issue no bulk transfer and return a negative error code.        *)
C11_ClosedIoIssuesNoTransfer ==
    [][(usb_dev = NULL /\ op'.name \in {"cdc_read_data", "cdc_write_data"})
           => /\ CallsOf(calls', "bulk_transfer") = {}
              /\ ~crashed'
              /\ ret' < 0]_vars

(* C12: cdc_set_line_coding and cdc_setdtr_rts called on a session whose   *)
(* usb_dev is NULL return CDC_ERROR_NO_DEVICE, issue no control transfer   *)
(* and leave usb_dev, in_ep, out_ep, the timeouts and the detach mode as   *)
(* they were.                                                              *)
C12_ClosedControlIsNoDevice ==
    [][(usb_dev = NULL
            /\ op'.name \in {"cdc_set_line_coding", "cdc_setdtr_rts"})
           => /\ ret' = CDC_ERROR_NO_DEVICE
              /\ calls' = <<>>
              /\ ~crashed'
              /\ UNCHANGED <<usb_dev, in_ep, out_ep, usb_read_timeout,
                             usb_write_timeout, module_detach_mode>>]_vars

C12_Witness ==
    /\ IsOp("cdc_setdtr_rts")
    /\ usb_dev = NULL
    /\ ret = CDC_ERROR_NO_DEVICE
    /\ error_str = "not opened"
    /\ calls = <<>>

(* The seven bytes of a line coding, from the rate's two 16-bit halves *)
WireBytes(a) ==
    <<a.baud[2] % 256, a.baud[2] \div 256, a.baud[1] % 256, a.baud[1] \div 256,
      a.sbit, a.parity, a.bits>>

(* C13: cdc_set_line_coding on an open session issues one control transfer *)
(* with request type 0x21, request 0x20, value 0, index 0 and the seven    *)
(* bytes: the baud rate least significant byte first, then the stop-bits,  *)
(* parity and bits codes; 9600/8/1-stop/none gives 128,37,0,0,0,0,8.       *)
C13_LineCodingBytes ==
    (IsOp("cdc_set_line_coding") /\ usb_dev # NULL)
        => /\ Len(calls) = 1
           /\ calls[1].fn = "control_transfer"
           /\ calls[1].h = usb_dev
           /\ calls[1].a = <<33, 32, 0, 0>>
           /\ Len(calls[1].n) = 7
           /\ calls[1].n = WireBytes(op.arg)
           /\ (op.arg = [baud |-> <<0, 9600>>, bits |-> 8, sbit |-> 0,
                         parity |-> 0])
                  => calls[1].n = <<128, 37, 0, 0, 0, 0, 8>>

C13_Witness ==
    /\ IsOp("cdc_set_line_coding")
    /\ usb_dev # NULL
    /\ op.arg.baud = <<65535, 65535>>
    /\ calls[1].n = <<255, 255, 255, 255, 0, 0, 8>>
    /\ ret = CDC_SUCCESS

----------------------------------------------------------------------------
(* Enumeration, stated over the bus. *)
NoCallFailed == \A i \in 1..Len(calls) : calls[i].rc >= 0

(* The inclusion predicate of cdc_usb_find_all(vendor, product) *)
Included(d, vendor, product) ==
    IF vendor = 0 /\ product = 0
    THEN DataPositions(bus[d]) # {}
    ELSE bus[d].idVendor = vendor /\ bus[d].idProduct = product

IsSubsequenceOfBus(l) ==
    /\ \A k \in 1..Len(l) : l[k] \in 1..Len(bus)
    /\ \A j, k \in 1..Len(l) : j < k => l[j] < l[k]

Count(d, l) == Cardinality({k \in 1..Len(l) : l[k] = d})

(* C14: when no libusb call and no allocation fails, cdc_usb_find_all      *)
(* leaves in the caller's list exactly the devices that satisfy the        *)
(* inclusion predicate, in enumeration order, and returns the list's       *)
(* length.                                                                 *)
C14_FindAllResult ==
    (IsOp("cdc_usb_find_all") /\ NoCallFailed /\ ret >= 0)
        => /\ IsSubsequenceOfBus(devlist)
           /\ {devlist[k] : k \in 1..Len(devlist)}
                  = {d \in 1..Len(bus) : Included(d, op.arg[1], op.arg[2])}
           /\ ret = Len(devlist)

C14_Witness ==
    /\ IsOp("cdc_usb_find_all")
    /\ op.arg = <<0, 0>>
    /\ NoCallFailed
    /\ Len(bus) = 3
    /\ ~Included(2, 0, 0)
    /\ devlist = <<1, 3>>
    /\ ret = 2

(* C15: a cdc_usb_find_all that fails returns the error with the caller's  *)
(* list empty and every reference it took on a device given back.          *)
C15_FindAllNoPartialList ==
    [][(op'.name = "cdc_usb_find_all" /\ ret' < 0)
           => devlist' = <<>> /\ refs' = refs]_vars

(* C16: a cdc_usb_find_all whose libusb_get_device_list succeeded issues   *)
(* libusb_free_device_list exactly once, as its last call, on every        *)
(* return path.                                                            *)
C16_FindAllFreesRawList ==
    (IsOp("cdc_usb_find_all") /\ calls[1].rc >= 0)
        => /\ Cardinality(CallsOf(calls, "get_device_list")) = 1
           /\ CallsOf(calls, "free_device_list") = {Len(calls)}

C16_Witness ==
    /\ IsOp("cdc_usb_find_all")
    /\ ret = CDC_ERROR_NO_MEM
    /\ Len(devlist) = 1
    /\ calls[Len(calls)].fn = "free_device_list"
    /\ Cardinality(CallsOf(calls, "free_device_list")) = 1

(* C17: a successful cdc_usb_find_all takes one reference on each device   *)
(* it lists; cdc_list_free gives back one reference per entry and empties  *)
(* the list, changing nothing on an empty list; so after find_all and      *)
(* then list_free every device has the references it had before.           *)
C17_ListReferenceBalance ==
    /\ [][/\ (op'.name = "cdc_usb_find_all" /\ ret' >= 0)
               => /\ refs' = [d \in DOMAIN refs |->
                                 refs[d] + Count(d, devlist')]
                  /\ \A d \in DOMAIN refs : Count(d, devlist') <= 1
          /\ op'.name = "cdc_list_free"
               => /\ devlist' = <<>>
                  /\ refs' = [d \in DOMAIN refs |-> refs[d] - Count(d, devlist)]
                  /\ (devlist = <<>> => calls' = <<>>)
                  /\ UNCHANGED <<usb_dev, in_ep, out_ep, error_str, error_code,
                                 handles>>]_vars
    /\ [](IsOp("cdc_list_free") => \A d \in DOMAIN refs : refs[d] = 0)

C17_Witness ==
    /\ IsOp("cdc_list_free")
    /\ Len(calls) = 2
    /\ calls[1].fn = "unref_device" /\ calls[1].a = 1
    /\ calls[2].fn = "unref_device" /\ calls[2].a = 2
    /\ devlist = <<>>
    /\ \A d \in DOMAIN refs : refs[d] = 0

----------------------------------------------------------------------------
(* The selecting opens, stated over the bus. *)

(* Where in a log cdc_usb_open_dev was entered *)
Entered(log) == CallsOf(log, "cdc_usb_open_dev")

(* The first index of a log that is past the scan *)
ScanEnd(log) ==
    IF Entered(log) # {} THEN CHOOSE m \in Entered(log) : TRUE ELSE Len(log) + 1

ScanClean(log) == \A i \in 1..Len(log) : i < ScanEnd(log) => log[i].rc >= 0

(* The devices that pass the ids and every given string filter, in order *)
Survives(d, a) ==
    /\ bus[d].idVendor = a.vendor /\ bus[d].idProduct = a.product
    /\ a.description # NoStr => bus[d].product = a.description
    /\ a.serial # NoStr => bus[d].serial = a.serial

Survivors(a) ==
    SelectSeq([d \in 1..Len(bus) |-> d], LAMBDA d : Survives(d, a))

(* C18: when nothing fails during the scan, cdc_usb_open_desc_index on a   *)
(* closed session passes to cdc_usb_open_dev the device at 0-based         *)
(* position index among those, in enumeration order, that match the ids    *)
(* and every given string; with fewer than index + 1 of them it returns    *)
(* CDC_ERROR_NOT_FOUND, enters no open and leaves no handle open.          *)
C18_OpenDescIndexSelects ==
    [][(op'.name = "cdc_usb_open_desc_index" /\ usb_dev = NULL
            /\ ScanClean(calls'))
           => LET a == op'.arg
                  surv == Survivors(a)
              IN  IF Len(surv) > a.index
                  THEN /\ Cardinality(Entered(calls')) = 1
                       /\ calls'[ScanEnd(calls')].a = surv[a.index + 1]
                  ELSE /\ ret' = CDC_ERROR_NOT_FOUND
                       /\ Entered(calls') = {}
                       /\ usb_dev' = NULL
                       /\ handles' = handles]_vars

C18_Witness ==
    /\ IsOp("cdc_usb_open_desc_index")
    /\ op.arg = [vendor |-> 1, product |-> 1, description |-> NoStr,
                 serial |-> "B", index |-> 1]
    /\ ScanClean(calls)
    /\ Cardinality(CallsOf(calls, "open")) = 2
    /\ ret = CDC_ERROR_NOT_FOUND
    /\ usb_dev = NULL

(* C19: in cdc_usb_open_desc_index every handle opened during the scan is  *)
(* closed again, after its string reads and before anything else, whether  *)
(* the strings match, differ or cannot be read; and a successful call      *)
(* issues one claim_interface and one control transfer, both after the     *)
(* scan.                                                                   *)
C19_TransientHandlesClosed ==
    IsOp("cdc_usb_open_desc_index")
        => /\ \A i \in CallsOf(calls, "open") :
                  (calls[i].rc = 0 /\ i < ScanEnd(calls))
                      => \E j \in (i + 1)..Len(calls) :
                             /\ calls[j].fn = "close"
                             /\ calls[j].h = calls[i].h
                             /\ \A k \in (i + 1)..(j - 1) :
                                    calls[k].fn = "get_string_descriptor_ascii"
           /\ ret = CDC_SUCCESS
                  => /\ Cardinality(CallsOf(calls, "claim_interface")) = 1
                     /\ Cardinality(CallsOf(calls, "control_transfer")) = 1
                     /\ \A k \in CallsOf(calls, "claim_interface")
                                  \cup CallsOf(calls, "control_transfer") :
                            k > ScanEnd(calls)
                     /\ \A k \in CallsOf(calls, "get_string_descriptor_ascii") :
                            k < ScanEnd(calls)

(* The devices at a bus number and device address *)
AtBusAddr(busnum, addr) ==
    {d \in 1..Len(bus) :
        bus[d].bus_number = busnum /\ bus[d].device_address = addr}

(* C20: cdc_usb_open_bus_addr on a closed session passes to                *)
(* cdc_usb_open_dev the first device in enumeration order at the given bus *)
(* number and device address and returns what that open returns; with no   *)
(* such device it returns CDC_ERROR_NOT_FOUND and usb_dev stays NULL.      *)
C20_OpenBusAddrSelects ==
    [][(op'.name = "cdc_usb_open_bus_addr" /\ usb_dev = NULL
            /\ calls'[1].rc >= 0)
           => LET at == AtBusAddr(op'.arg[1], op'.arg[2])
              IN  IF at # {}
                  THEN LET d == CHOOSE x \in at : \A y \in at : x <= y
                       IN  /\ Cardinality(Entered(calls')) = 1
                           /\ calls'[ScanEnd(calls')].a = d
                           /\ ret' = CDC_SUCCESS
                                  => /\ usb_dev' # NULL
                                     /\ handles'[usb_dev'].dev = d
                                     /\ handles'[usb_dev'].claimed # {}
                           /\ ret' < 0 => error_code' = ret'
                           /\ ret' <= 0
                  ELSE /\ ret' = CDC_ERROR_NOT_FOUND
                       /\ Entered(calls') = {}
                       /\ usb_dev' = NULL]_vars

C20_Witness ==
    /\ IsOp("cdc_usb_open_bus_addr")
    /\ op.arg = <<2, 1>>
    /\ ret = CDC_SUCCESS
    /\ usb_dev # NULL
    /\ handles[usb_dev].dev = 3
    /\ handles[usb_dev].claimed = {2}

----------------------------------------------------------------------------
(* The open sequence, stated over the calls of one cdc_usb_open_dev. *)
DetachFns == {"detach_kernel_driver", "set_auto_detach_kernel_driver"}

DetachCalls(log) == {i \in 1..Len(log) : log[i].fn \in DetachFns}

(* The second arguments of the calls of a log that are in a set, in order *)
ArgsOf(log, fns) ==
    LET sel == SelectSeq(log, LAMBDA c : c.fn \in fns)
    IN  [k \in 1..Len(sel) |-> sel[k].a]

C22_AccessIffDetachDenied ==
    \A i \in CallsOf(calls, "set_configuration") :
        (IsOp("cdc_usb_open_dev") /\ calls[i].rc < 0)
            => /\ (ret = CDC_ERROR_ACCESS)
                      <=> \E k \in CallsOf(calls, "detach_kernel_driver") :
                              calls[k].rc = CDC_ERROR_OTHER
               /\ ret # CDC_ERROR_ACCESS => ret = calls[i].rc

(* The place of a call in the open sequence *)
StepOf(fn) ==
    IF fn \in {"get_device_descriptor", "get_config_descriptor",
               "free_config_descriptor"} THEN 1
    ELSE IF fn = "open" THEN 2
    ELSE IF fn \in DetachFns THEN 3
    ELSE IF fn = "set_configuration" THEN 4
    ELSE IF fn = "claim_interface" THEN 5
    ELSE IF fn = "control_transfer" THEN 6
    ELSE 7

(* C26: the calls of every cdc_usb_open_dev come in the order walker       *)
(* descriptor fetches, libusb_open, detach calls, set-configuration,       *)
(* claim, line-coding control transfer; after a call of a fatal step has   *)
(* failed nothing follows but the libusb_close of the rollback; the claim  *)
(* is for the data interface and the set-configuration for the             *)
(* configuration index the walker returned in this call.                   *)
C26_OpenSequenceOrder ==
    IsOp("cdc_usb_open_dev")
        => /\ \A i, j \in 1..Len(calls) :
                  i < j => StepOf(calls[i].fn) <= StepOf(calls[j].fn)
           /\ \A fn \in {"open", "set_configuration", "claim_interface",
                          "control_transfer", "close"} :
                  Cardinality(CallsOf(calls, fn)) <= 1
           /\ \A i \in 1..Len(calls) :
                  (calls[i].rc < 0 /\ i \notin DetachCalls(calls))
                      => \A j \in (i + 1)..Len(calls) : calls[j].fn = "close"
           /\ \A i \in CallsOf(calls, "claim_interface") :
                  walk.found /\ calls[i].a = walk.data_iface
           /\ \A i \in CallsOf(calls, "set_configuration") :
                  walk.found /\ calls[i].a = walk.cfg_idx
           /\ ret = CDC_SUCCESS
                  => {StepOf(calls[i].fn) : i \in 1..Len(calls)}
                         \in {{1, 2, 3, 4, 5, 6}, {1, 2, 4, 5, 6}}

C26_Witness ==
    /\ IsOp("cdc_usb_open_dev")
    /\ op.arg = 2
    /\ Len(calls) = 11
    /\ calls[10].fn = "claim_interface" /\ calls[10].rc < 0
    /\ calls[10].a = 2
    /\ calls[9].fn = "set_configuration" /\ calls[9].a = 1
    /\ calls[11].fn = "close"
    /\ usb_dev = NULL

----------------------------------------------------------------------------
(* C27: after every operation the number of libusb handles that are open   *)
(* is 1 when usb_dev is non-NULL and 0 when it is NULL.                    *)
C27_NoHandleLeak ==
    Cardinality({h \in Handles : handles[h].open})
        = IF usb_dev # NULL THEN 1 ELSE 0

(* C28: an operation that returns a non-negative result leaves error_code  *)
(* and error_str as they were before it.                                   *)
C28_SuccessKeepsLastError ==
    [][(op'.name \in {"cdc_usb_find_all", "cdc_list_free"} /\ ret' >= 0)
           => error_code' = error_code /\ error_str' = error_str]_vars

(* C29: a cdc_usb_open_desc_index or cdc_usb_open_bus_addr whose           *)
(* libusb_get_device_list succeeded issues libusb_free_device_list exactly *)
(* once before it returns, on every return path.                           *)
C29_OpensFreeRawList ==
    (op.name \in {"cdc_usb_open_desc_index", "cdc_usb_open_bus_addr"}
        /\ calls[1].rc >= 0)
        => Cardinality(CallsOf(calls, "free_device_list")) = 1

----------------------------------------------------------------------------
(* C23: the first cdc_deinit closes the handle the session holds, if any,  *)
(* and releases the libusb context; a cdc_deinit that follows one issues   *)
(* no libusb call and changes nothing; on a session without a handle       *)
(* cdc_deinit only releases the context.                                   *)
C23_DeinitIdempotent ==
    [][op'.name = "cdc_deinit"
           => /\ usb_dev' = NULL /\ ~usb_ctx'
              /\ (usb_dev # NULL /\ usb_ctx)
                     => /\ Len(calls') = 2
                        /\ calls'[1].fn = "close" /\ calls'[1].h = usb_dev
                        /\ ~handles'[usb_dev].open
                        /\ calls'[2].fn = "exit"
              /\ (usb_dev = NULL /\ usb_ctx)
                     => /\ Len(calls') = 1 /\ calls'[1].fn = "exit"
                        /\ handles' = handles
              /\ op.name = "cdc_deinit"
                     => /\ calls' = <<>>
                        /\ UNCHANGED <<usb_ctx, usb_dev, in_ep, out_ep,
                                       error_str, error_code, handles, errno,
                                       devlist, refs, usb_read_timeout,
                                       usb_write_timeout, module_detach_mode>>
             ]_vars

C23_Witness ==
    /\ IsOp("cdc_deinit")
    /\ calls = <<>>
    /\ ~usb_ctx
    /\ usb_dev = NULL
    /\ \A h \in Handles : ~handles[h].open
    /\ error_str = "libusb_control_transfer"

(* C25: cdc_usb_get_strings leaves usb_dev as it found it on every return  *)
(* path: a handle it opened is closed again, and a handle the session      *)
(* already held stays open.                                                *)
C25_GetStringsKeepsHandle ==
    [][op'.name = "cdc_usb_get_strings"
           => /\ usb_dev' = usb_dev
              /\ \A h \in Handles : handles'[h].open = handles[h].open]_vars

(* The calls of a log that returned a negative code, the two detach calls  *)
(* aside (their results are discarded).                                    *)
FailedCalls(log) ==
    {i \in 1..Len(log) : log[i].rc < 0 /\ log[i].fn \notin DetachFns}

(* Whether the log has entered cdc_usb_open_dev before position i *)
InOpenDev(log, i) ==
    \E j \in 1..(i - 1) : log[j].fn = "cdc_usb_open_dev"

(* The label the code attaches to a failing libusb call c at position i of *)
(* the log of operation name, which returned code.                         *)
LabelOfCall(name, log, i, code) ==
    LET c == log[i]
    IN  CASE c.fn = "get_device_list" -> "libusb_get_device_list"
          [] c.fn = "get_device_descriptor" -> "libusb_get_device_descriptor"
          [] c.fn = "get_config_descriptor" -> "libusb_get_config_descriptor"
          [] c.fn = "open" ->
                 IF name = "cdc_usb_open_desc_index" /\ ~InOpenDev(log, i)
                 THEN "usb_open" ELSE "libusb_open"
          [] c.fn = "get_string_descriptor_ascii" ->
                 IF name = "cdc_usb_open_desc_index"
                 THEN IF c.b = "product"
                      THEN "libusb_get_string_descriptor_ascii product description"
                      ELSE "libusb_get_string_descriptor_ascii serial number"
                 ELSE IF c.b = "manufacturer"
                      THEN "libusb_get_string_descriptor_ascii manufacturer"
                      ELSE IF c.b = "product"
                      THEN "libusb_get_string_descriptor_ascii product"
                      ELSE "libusb_get_string_descriptor_ascii serial"
          [] c.fn = "set_configuration" ->
                 IF code # c.rc
                 THEN "missing permissions to detach kernel module"
                 ELSE "libusb_set_configuration"
          [] c.fn = "claim_interface" -> "libusb_claim_interface"
          [] c.fn = "control_transfer" -> "libusb_control_transfer"
          [] c.fn = "release_interface" -> "libusb_release_interface"
          [] c.fn = "bulk_transfer" -> "libusb_bulk_transfer"
          [] OTHER -> NoStr

(* The label of a failure that no libusb call reported *)
LabelOfCode(name, log, code) ==
    CASE code = CDC_ERROR_NOT_FOUND ->
             IF name \in {"cdc_usb_open_desc_index", "cdc_usb_open_bus_addr"}
                /\ ~InOpenDev(log, Len(log) + 1)
             THEN "device not found" ELSE "cdc endpoints"
      [] code = CDC_ERROR_INVALID_PARAM ->
             IF name = "cdc_usb_get_strings"
             THEN "struct libusb_device *dev" ELSE "libusb_device *dev"
      [] code = CDC_ERROR_NO_DEVICE -> "not opened"
      [] code = CDC_ERROR_NO_MEM -> "out of memory"
      [] OTHER -> NoStr

(* The label of the step of the operation that failed first: the failing   *)
(* libusb call when there is one, the condition the code tested otherwise. *)
LabelOfFailedStep(name, log, code) ==
    IF FailedCalls(log) = {}
    THEN LabelOfCode(name, log, code)
    ELSE LET i == CHOOSE j \in FailedCalls(log) :
                      \A k \in FailedCalls(log) : k <= j
         IN  LabelOfCall(name, log, i, code)

(* C24: when an operation returns a negative code, error_code is that code *)
(* and error_str is the label of the step that failed, also when the       *)
(* failure was forwarded by an outer operation.                            *)
C24_ErrorChannel ==
    (~crashed /\ ret < 0)
        => /\ error_code = ret
           /\ error_str = LabelOfFailedStep(op.name, calls, ret)
           /\ error_str # NoStr

C24_Witness ==
    /\ IsOp("cdc_usb_open_dev")
    /\ ~crashed
    /\ ret = CDC_ERROR_BUSY
    /\ error_code = CDC_ERROR_BUSY
    /\ error_str = "libusb_control_transfer"
    /\ usb_dev = NULL
    /\ calls[Len(calls)].fn = "close"
    /\ calls[Len(calls) - 1].fn = "control_transfer"
    /\ calls[Len(calls) - 1].rc = CDC_ERROR_BUSY

====
